---- MODULE Spec2Model ----
(***************************************************************************)
(* Model of the Pinia store lifecycle manager plugin (src/src/plugin.ts). *)
(*                                                                         *)
(* One store instance.  The plugin entry point PiniaStoreLifecycleManager  *)
(* is applied to it, possibly several times; when it attaches it hands the *)
(* three closures resetState, reconfigureState and refreshState to the     *)
(* caller-supplied lifecycleEventHandler.  The store substrate (Vue        *)
(* reactivity, Pinia), the handler, the configuration functions and the    *)
(* store's actions are external: they are modelled by their observable     *)
(* outcomes (a value, nothing, or an exception).                           *)
(*                                                                         *)
(* Optional booleans are the strings "absent", "true", "false".            *)
(***************************************************************************)
EXTENDS Integers, Sequences, FiniteSets, TLC

\* ---------------------------------------------------------------- bounds
MaxVal == 1            \* property values are 0..MaxVal
MaxLen == 2            \* longest declared mapping
MaxHandlerCalls == 2   \* plugin invocations stop once the handler ran this often

\* ------------------------------------------------------------ vocabulary
Tri == {"absent", "true", "false"}
PropKeys == {"count", "user"}
\* properties the README lists as excluded from clean and reConfigure: a Pinia
\* internal (function-valued) and a conventionally private state property
UnsafeKeys == {"$reset", "_secret"}
StoreKeys == PropKeys \cup UnsafeKeys
ActionKeys == {"load", "purge", "ghost"}
Modes == {"full", "partial"}

\* the key written on attachment, and the key the guard looks up
FlagKey == "_hasStoreLifecycleManagerListener"
GuardKey == "hasStoreLifecycleManagerListener"

Vals == 0..MaxVal
Plain(v) == [val |-> v, ro |-> FALSE]
Frozen(v) == [val |-> v, ro |-> TRUE]
Cells == [val : Vals, ro : BOOLEAN]

VARIABLES
    store,             \* store[key]: the value the store holds under a property key
    setter,            \* per key: "plain" (write succeeds) or "throws" (write raises)
    actions,           \* per action key: "ok", "throws" or "absent" (not on the store)
    lifecycleOptions,  \* options.lifecycleOptions of the store definition
    env,               \* [window, document]: which globals are defined
    stateKeys,         \* bookkeeping keys present in store.$state
    storeFlagRef,      \* store._hasStoreLifecycleManagerListener has been set
    pc,                \* "idle", or "inHandler" while lifecycleEventHandler runs
    handlerCalls,      \* number of times lifecycleEventHandler was invoked
    last               \* what the last completed step did

vars == <<store, setter, actions, lifecycleOptions, env, stateKeys,
          storeFlagRef, pc, handlerCalls, last>>

\* ------------------------------------------------------- sequence helpers
Range(s) == {s[i] : i \in 1..Len(s)}
KeysOf(s) == [i \in 1..Len(s) |-> s[i].key]
DistinctKeys(s) == \A i, j \in 1..Len(s) : s[i].key = s[j].key => i = j
SeqsUpTo(S, n) == UNION {[1..k -> S] : k \in 0..n}

\* ------------------------------------------------ declared configurations
\* declared new values: the baseline and the largest value
PropEntries == [key : PropKeys, value : {Plain(0), Plain(MaxVal)}]
PropMappings == {m \in SeqsUpTo(PropEntries, MaxLen) : DistinctKeys(m)}
\* mappings that name an excluded property, alone or next to an ordinary one
UnsafeEntries == [key : UnsafeKeys \cup {"user"}, value : {Plain(0)}]
UnsafeMappings ==
    {m \in SeqsUpTo(UnsafeEntries, MaxLen) :
        DistinctKeys(m) /\ \E i \in 1..Len(m) : m[i].key \in UnsafeKeys}

ParamsOf(k) == IF k = "purge" THEN <<0>> ELSE <<>>
\* an entry of a refresh mapping: load is declared with every value of
\* resetOnly, purge as a reset-only action, and the entry of the name that is
\* no action without params and without resetOnly
FlagsOf(k) ==
    CASE k = "load" -> Tri
      [] k = "purge" -> {"true"}
      [] OTHER -> {"absent"}
RefreshEntries ==
    UNION {{[key |-> k, resetOnly |-> r, hasParams |-> (k # "ghost"),
             params |-> ParamsOf(k)] : r \in FlagsOf(k)} : k \in ActionKeys}
RefreshMappings == {m \in SeqsUpTo(RefreshEntries, MaxLen) : DistinctKeys(m)}

Absent == [kind |-> "absent", fn |-> "none", m |-> <<>>]
Static(m) == [kind |-> "static", fn |-> "none", m |-> m]
Fn(kind, fn, m) == [kind |-> kind, fn |-> fn, m |-> m]

\* the configuration of the README's running example
DefaultClean ==
    Static(<<[key |-> "count", value |-> Plain(0)], [key |-> "user", value |-> Plain(0)]>>)
DefaultRefresh ==
    Static(<<[key |-> "load", resetOnly |-> "false", hasParams |-> TRUE, params |-> <<>>],
             [key |-> "purge", resetOnly |-> "true", hasParams |-> TRUE, params |-> <<0>>]>>)

\* the sources a clean or reConfigure slot ranges over: every mapping in each
\* of the three shapes, and the functions that return nothing, throw, or read
\* the store
PropSources ==
    {Absent}
    \cup {Static(m) : m \in PropMappings}
    \cup {Fn("storeFn", "ret", m) : m \in PropMappings}
    \cup {Fn("noArgFn", "ret", m) : m \in PropMappings}
    \cup {Fn("storeFn", f, <<>>) : f \in {"void", "throws", "fromStore"}}
    \cup {Fn("noArgFn", f, <<>>) : f \in {"void", "throws"}}

\* the sources a refresh slot ranges over: every mapping declared statically,
\* the running example returned by a function, and the functions that return
\* nothing, a non-object, throw, or read the store
RefreshSources ==
    {Absent}
    \cup {Static(m) : m \in RefreshMappings}
    \cup {Fn(k, "ret", DefaultRefresh.m) : k \in {"storeFn", "noArgFn"}}
    \cup {Fn("storeFn", f, <<>>) : f \in {"void", "throws", "invalid", "fromStore"}}
    \cup {Fn("noArgFn", f, <<>>) : f \in {"void", "throws", "invalid"}}

\* ------------------------------------------------ configuration resolution
NoStore == [k \in StoreKeys |-> Plain(0)]   \* placeholder argument of a zero-parameter call

\* what a configuration function that reads the store returns:
\* (store) => ({ user: 0, count: store.user })
PropsFromStore(s) ==
    <<[key |-> "user", value |-> Plain(0)],
      [key |-> "count", value |-> Plain(s["user"].val)]>>
\* (store) => ({ load: { params: [] }, purge: { params: [store.count] } })
RefreshFromStore(s) ==
    <<[key |-> "load", resetOnly |-> "absent", hasParams |-> TRUE, params |-> <<>>],
      [key |-> "purge", resetOnly |-> "absent", hasParams |-> TRUE,
       params |-> <<s["count"].val>>]>>

FromStore(slot, s) == IF slot = "refresh" THEN RefreshFromStore(s) ELSE PropsFromStore(s)

\* the result of resolving a slot: evals counts the calls of the configuration
\* function, args the arguments it was called with
Returned(kind, m) == [thrown |-> FALSE, kind |-> kind, m |-> m, evals |-> 0, args |-> 0]
Thrown == [thrown |-> TRUE, kind |-> "empty", m |-> <<>>, evals |-> 0, args |-> 0]

\* the body of the caller-supplied function, by its behaviour; arg is the
\* argument it is called with
CallFn(src, arg, slot) ==
    CASE src.fn = "ret" -> Returned("mapping", src.m)
      [] src.fn = "void" -> Returned("empty", <<>>)
      [] src.fn = "invalid" -> Returned("invalid", <<>>)
      [] src.fn = "fromStore" -> Returned("mapping", FromStore(slot, arg))
      [] OTHER -> Thrown

\* declared parameter count of a function source
Arity(src) == IF src.kind = "storeFn" THEN 1 ELSE 0

ResolveSourceSwallow(src, s, slot) ==
    IF src.kind = "static" THEN Returned("mapping", src.m)
    ELSE IF src.fn = "throws" THEN Returned("empty", <<>>)
    ELSE IF Arity(src) > 0 THEN [CallFn(src, s, slot) EXCEPT !.evals = 1, !.args = 1]
    ELSE [CallFn(src, NoStore, slot) EXCEPT !.evals = 1]

ResolveSourceNoArgIgnored(src, s, slot) ==
    IF src.kind = "static" THEN Returned("mapping", src.m)
    ELSE IF Arity(src) > 0 THEN [CallFn(src, s, slot) EXCEPT !.evals = 1, !.args = 1]
    ELSE Returned("empty", <<>>)

\* typeof src === "function" ? (src.length > 0 ? src(store) : src()) : src
ResolveSource(src, s, slot) ==
    IF src.kind = "static" THEN Returned("mapping", src.m)
    ELSE IF Arity(src) > 0 THEN [CallFn(src, s, slot) EXCEPT !.evals = 1, !.args = 1]
    ELSE [CallFn(src, NoStore, slot) EXCEPT !.evals = 1]

\* ---------------------------------------------------- property applicator
IsReadonly(cell) == cell.ro

\* the running account of one pass over a resolved mapping
NoPass(s) ==
    [store |-> s, thrown |-> FALSE, outcome |-> "none", evals |-> 0, args |-> 0,
     mapping |-> <<>>, skipped |-> <<>>, failed |-> <<>>, updated |-> <<>>,
     entries |-> <<>>, selected |-> <<>>, calls |-> <<>>,
     debug |-> FALSE, diag |-> <<>>]

\* a pass started by a closure whose pluginOptions.enableDebugLogs is debug
StartPass(s, debug) == [NoPass(s) EXCEPT !.debug = debug]

\* debugLog and devWarnNonWritable are called under enableDebugLogs, devError always
Logged(acc, level, key) ==
    IF level = "error" \/ acc.debug
    THEN [acc EXCEPT !.diag = Append(@, [level |-> level, key |-> key])]
    ELSE acc

ResetKeyNoGuard(acc, st, e) ==
    IF st[e.key] = "throws"
    THEN [acc EXCEPT !.failed = Append(@, e.key)]
    ELSE [acc EXCEPT !.store[e.key] = e.value, !.updated = Append(@, e.key)]

ResetKeyAccumulate(acc, st, e) ==
    IF IsReadonly(acc.store[e.key])
    THEN [acc EXCEPT !.skipped = Append(@, e.key)]
    ELSE IF st[e.key] = "throws"
    THEN [acc EXCEPT !.failed = Append(@, e.key)]
    ELSE [acc EXCEPT !.store[e.key].val = (@ + e.value.val) % (MaxVal + 1),
                     !.updated = Append(@, e.key)]

ResetKeyReturnUnderDebug(acc, st, e) ==
    IF IsReadonly(acc.store[e.key]) /\ acc.debug
    THEN Logged([acc EXCEPT !.skipped = Append(@, e.key)], "warn", e.key)
    ELSE IF st[e.key] = "throws"
    THEN Logged([acc EXCEPT !.failed = Append(@, e.key)], "error", e.key)
    ELSE Logged([acc EXCEPT !.store[e.key] = e.value, !.updated = Append(@, e.key)],
                "log", e.key)

\* the forEach callback of resetState
ResetKey(acc, st, e) ==
    IF IsReadonly(acc.store[e.key])
    THEN Logged([acc EXCEPT !.skipped = Append(@, e.key)], "warn", e.key)
    ELSE IF st[e.key] = "throws"
    THEN Logged([acc EXCEPT !.failed = Append(@, e.key)], "error", e.key)
    ELSE Logged([acc EXCEPT !.store[e.key] = e.value, !.updated = Append(@, e.key)],
                "log", e.key)

\* Object.keys(cleanOptions).forEach(...): stops only when the callback throws
RECURSIVE ResetEach(_, _, _, _)
ResetEach(acc, st, m, i) ==
    IF i > Len(m) \/ acc.thrown THEN acc
    ELSE ResetEach(ResetKey(acc, st, m[i]), st, m, i + 1)

\* a loop that resolves the slot again before every key
RECURSIVE ResetEachLive(_, _, _, _)
ResetEachLive(acc, src, st, i) ==
    LET m == ResolveSource(src, acc.store, "props").m
    IN  IF i > Len(m) \/ acc.thrown THEN acc
        ELSE ResetEachLive(ResetKey(acc, st, m[i]), src, st, i + 1)

ResetPassLive(src, s, st, debug) ==
    LET start == Logged(StartPass(s, debug), "log", "start")
        r == ResolveSource(src, s, "props")
        got == [start EXCEPT !.evals = r.evals, !.args = r.args]
    IN  IF src.kind = "absent"
        THEN Logged([start EXCEPT !.outcome = "undeclared"], "log", "skipped")
        ELSE IF r.thrown
        THEN [got EXCEPT !.outcome = "resolverThrew", !.thrown = TRUE]
        ELSE IF r.kind # "mapping"
        THEN Logged([got EXCEPT !.outcome = "empty"], "log", "completed")
        ELSE Logged(ResetEachLive([got EXCEPT !.outcome = "applied", !.mapping = r.m],
                                  src, st, 1),
                    "log", "completed")

\* the body of resetState
ResetPass(src, s, st, debug) ==
    LET start == Logged(StartPass(s, debug), "log", "start")
        r == ResolveSource(src, s, "props")
        got == [start EXCEPT !.evals = r.evals, !.args = r.args]
    IN  IF src.kind = "absent"
        THEN Logged([start EXCEPT !.outcome = "undeclared"], "log", "skipped")
        ELSE IF r.thrown
        THEN [got EXCEPT !.outcome = "resolverThrew", !.thrown = TRUE]
        ELSE IF r.kind # "mapping"
        THEN Logged([got EXCEPT !.outcome = "empty"], "log", "completed")
        ELSE Logged(ResetEach([got EXCEPT !.outcome = "applied", !.mapping = r.m],
                              st, r.m, 1),
                    "log", "completed")

ReconfigureKeyNoCatch(acc, st, e) ==
    IF IsReadonly(acc.store[e.key])
    THEN [acc EXCEPT !.skipped = Append(@, e.key)]
    ELSE IF st[e.key] = "throws"
    THEN [acc EXCEPT !.failed = Append(@, e.key), !.thrown = TRUE]
    ELSE [acc EXCEPT !.store[e.key] = e.value, !.updated = Append(@, e.key)]

ReconfigureKeyNoSkip(acc, st, e) ==
    IF st[e.key] = "throws"
    THEN Logged([acc EXCEPT !.failed = Append(@, e.key)], "error", e.key)
    ELSE Logged([acc EXCEPT !.store[e.key] = e.value, !.updated = Append(@, e.key)],
                "log", e.key)

\* the forEach callback of reconfigureState
ReconfigureKey(acc, st, e) ==
    IF IsReadonly(acc.store[e.key])
    THEN Logged([acc EXCEPT !.skipped = Append(@, e.key)], "warn", e.key)
    ELSE IF st[e.key] = "throws"
    THEN Logged([acc EXCEPT !.failed = Append(@, e.key)], "error", e.key)
    ELSE Logged([acc EXCEPT !.store[e.key] = e.value, !.updated = Append(@, e.key)],
                "log", e.key)

RECURSIVE ReconfigureEach(_, _, _, _)
ReconfigureEach(acc, st, m, i) ==
    IF i > Len(m) \/ acc.thrown THEN acc
    ELSE ReconfigureEach(ReconfigureKey(acc, st, m[i]), st, m, i + 1)

\* the body of reconfigureState
ReconfigurePass(src, s, st, debug) ==
    LET start == Logged(StartPass(s, debug), "log", "start")
        r == ResolveSource(src, s, "props")
        got == [start EXCEPT !.evals = r.evals, !.args = r.args]
    IN  IF src.kind = "absent"
        THEN Logged([start EXCEPT !.outcome = "undeclared"], "log", "skipped")
        ELSE IF r.thrown
        THEN [got EXCEPT !.outcome = "resolverThrew", !.thrown = TRUE]
        ELSE IF r.kind # "mapping"
        THEN Logged([got EXCEPT !.outcome = "empty"], "log", "completed")
        ELSE Logged(ReconfigureEach([got EXCEPT !.outcome = "applied", !.mapping = r.m],
                                    st, r.m, 1),
                    "log", "completed")

\* ------------------------------------------------------ action dispatcher
\* const { mode, includeResetOnlyActions = false } = refreshOptions
IncludeFlag(inc) == inc = "true"
\* value?.resetOnly ?? false
ActionResetOnly(e) == e.resetOnly = "true"

ShouldIncludeUnion(mode, inc, e) ==
    IF mode = "full" THEN TRUE ELSE ~ActionResetOnly(e)

ShouldInclude(mode, inc, e) ==
    IF mode = "full"
    THEN ~IncludeFlag(inc) \/ (IncludeFlag(inc) /\ ActionResetOnly(e))
    ELSE ~ActionResetOnly(e)

FilterEntriesAll(m, mode, inc) == m

FilterEntries(m, mode, inc) ==
    LET Keep(e) == ShouldInclude(mode, inc, e) IN SelectSeq(m, Keep)

\* what a store action does to the store when it runs to completion
ActionEffect(key, s) ==
    IF key = "load" /\ ~s["count"].ro
    THEN [s EXCEPT !["count"].val = (@ + 1) % (MaxVal + 1)]
    ELSE s

\* value?.params ?? []
EntryParams(e) == IF e.hasParams THEN e.params ELSE <<>>
Call(e) == [key |-> e.key, params |-> EntryParams(e)]

\* the forEach callback of refreshState: look the action up, invoke it if present
InvokeEntry(acc, acts, e) ==
    CASE acts[e.key] = "absent" -> Logged(acc, "log", e.key)
      [] acts[e.key] = "throws" ->
            [Logged(acc, "log", e.key) EXCEPT !.calls = Append(@, Call(e)),
                                             !.thrown = TRUE]
      [] OTHER -> [Logged(acc, "log", e.key) EXCEPT !.calls = Append(@, Call(e)),
                                                    !.store = ActionEffect(e.key, @)]

RECURSIVE InvokeEach(_, _, _, _)
InvokeEach(acc, acts, m, i) ==
    IF i > Len(m) \/ acc.thrown THEN acc
    ELSE InvokeEach(InvokeEntry(acc, acts, m[i]), acts, m, i + 1)

RefreshPassNoGuard(src, s, acts, mode, inc, debug) ==
    LET start == Logged(StartPass(s, debug), "log", "start")
        r == ResolveSource(src, s, "refresh")
        got == [start EXCEPT !.evals = r.evals, !.args = r.args]
        sel == FilterEntries(r.m, mode, inc)
    IN  IF src.kind = "absent"
        THEN Logged([start EXCEPT !.outcome = "undeclared"], "log", "skipped")
        ELSE IF r.thrown
        THEN [got EXCEPT !.outcome = "resolverThrew", !.thrown = TRUE]
        ELSE IF r.kind = "empty"
        THEN [got EXCEPT !.outcome = r.kind, !.thrown = TRUE]
        ELSE Logged(InvokeEach([got EXCEPT !.outcome = "dispatched", !.entries = r.m,
                                           !.selected = sel],
                               acts, sel, 1),
                    "log", "completed")

\* the body of refreshState
RefreshPass(src, s, acts, mode, inc, debug) ==
    LET start == Logged(StartPass(s, debug), "log", "start")
        r == ResolveSource(src, s, "refresh")
        got == [start EXCEPT !.evals = r.evals, !.args = r.args]
        sel == FilterEntries(r.m, mode, inc)
    IN  IF src.kind = "absent"
        THEN Logged([start EXCEPT !.outcome = "undeclared"], "log", "skipped")
        ELSE IF r.thrown
        THEN [got EXCEPT !.outcome = "resolverThrew", !.thrown = TRUE]
        ELSE IF r.kind # "mapping"
        THEN Logged(Logged([got EXCEPT !.outcome = r.kind], "log", "invalid"),
                    "log", "completed")
        ELSE Logged(InvokeEach([got EXCEPT !.outcome = "dispatched", !.entries = r.m,
                                           !.selected = sel],
                               acts, sel, 1),
                    "log", "completed")

\* ------------------------------------------------------- attachment gate
Truthy(t) == t = "true"

NotClientSideBoth(e, enableSSR) == (~e.window /\ ~e.document) /\ ~Truthy(enableSSR)

\* (typeof window === "undefined" || typeof document === "undefined") && !enableSSR
NotClientSide(e, enableSSR) == (~e.window \/ ~e.document) /\ ~Truthy(enableSSR)

ShouldRegisterNoOverride(disableAutoRegister, disableListener) ==
    ~Truthy(disableAutoRegister) /\ disableListener # "true"

\* the registration policy of the guard
ShouldRegister(disableAutoRegister, disableListener) ==
    \/ (~Truthy(disableAutoRegister) /\ disableListener # "true")
    \/ (Truthy(disableAutoRegister) /\ disableListener = "false")

\* !store.$state.hasOwnProperty("hasStoreLifecycleManagerListener")
NoListenerYet(keys) == GuardKey \notin keys

WriteFlagLater(keys) == keys

WriteFlagToggle(keys) ==
    IF FlagKey \in keys THEN keys \ {FlagKey} ELSE keys \cup {FlagKey}

\* store.$state._hasStoreLifecycleManagerListener = ref(true)
WriteFlag(keys) == keys \cup {FlagKey}

GateLog(debug, what) == IF debug THEN <<[level |-> "log", key |-> what]>> ELSE <<>>

\* the two checks of the plugin entry point and the branch they select
GateOutcome(e, keys, disableAutoRegister, disableListener, enableSSR, debug) ==
    IF NotClientSide(e, enableSSR)
    THEN [outcome |-> "notClient", diag |-> GateLog(debug, "notClient")]
    ELSE IF /\ NoListenerYet(keys)
            /\ ShouldRegister(disableAutoRegister, disableListener)
    THEN [outcome |-> "attaching", diag |-> GateLog(debug, "attaching")]
    ELSE [outcome |-> "skipped", diag |-> GateLog(debug, "skipped")]

\* ------------------------------------------------------------ step records
Step ==
    [op |-> "none", outcome |-> "none", thrown |-> FALSE,
     disableAutoRegister |-> "absent", enableSSR |-> "absent",
     mode |-> "none", inc |-> "absent", debug |-> FALSE, evals |-> 0, args |-> 0,
     mapping |-> <<>>, skipped |-> <<>>, failed |-> <<>>, updated |-> <<>>,
     entries |-> <<>>, selected |-> <<>>, calls |-> <<>>]

\* --------------------------------------------------------------- initial
\* at most one property of the store is read-only or has a throwing setter
StoreKinds ==
    {k \in [StoreKeys -> {"plain", "frozen", "throws"}] :
        /\ \A u \in UnsafeKeys : k[u] = "plain"
        /\ \E x \in PropKeys : k[x] = "plain"}
AllPlain == [x \in StoreKeys |-> "plain"]
\* the store has the actions load and purge, at most one of which throws
ActionKinds ==
    {a \in [ActionKeys -> {"ok", "throws", "absent"}] :
        /\ a["ghost"] = "absent" /\ a["load"] # "absent" /\ a["purge"] # "absent"
        /\ a["load"] = "ok" \/ a["purge"] = "ok"}
AllOk == [x \in ActionKeys |-> IF x = "ghost" THEN "absent" ELSE "ok"]
Envs == [window : BOOLEAN, document : BOOLEAN]
Browser == [window |-> TRUE, document |-> TRUE]

Options(c, r, f, d) ==
    [clean |-> c, reConfigure |-> r, refresh |-> f, disableListener |-> d]

\* The store definitions explored: every source declared in both the clean
\* and the reConfigure slot, on every kind of store; every refresh source with
\* every kind of action; every attachment input; and the mappings that name
\* an excluded property.
Configs ==
    {[o |-> Options(c, c, Absent, "absent"), k |-> k, a |-> AllOk, e |-> Browser] :
        c \in PropSources, k \in StoreKinds}
    \cup
    {[o |-> Options(Absent, Absent, f, "absent"), k |-> AllPlain, a |-> a,
      e |-> Browser] :
        f \in RefreshSources, a \in ActionKinds}
    \cup
    {[o |-> Options(DefaultClean, Absent, DefaultRefresh, d), k |-> AllPlain,
      a |-> AllOk, e |-> e] :
        d \in Tri, e \in Envs}
    \cup
    {[o |-> Options(Static(m), Static(m), Absent, "absent"), k |-> AllPlain, a |-> AllOk,
      e |-> Browser] : m \in UnsafeMappings}

Init ==
    \E c \in Configs :
        /\ lifecycleOptions = c.o
        /\ store = [k \in StoreKeys |->
                        IF c.k[k] = "frozen" THEN Frozen(MaxVal) ELSE Plain(MaxVal)]
        /\ setter = [k \in StoreKeys |-> IF c.k[k] = "throws" THEN "throws" ELSE "plain"]
        /\ actions = c.a
        /\ env = c.e
        /\ stateKeys = {}
        /\ storeFlagRef = FALSE
        /\ pc = "idle"
        /\ handlerCalls = 0
        /\ last = Step

\* ------------------------------------------------- PiniaStoreLifecycleManager
Config == <<setter, actions, lifecycleOptions, env>>

\* the plugin entry point, up to the call of lifecycleEventHandler; debug is
\* pluginOptions.enableDebugLogs
PluginInvoke(disableAutoRegister, enableSSR, debug) ==
    /\ pc = "idle"
    /\ handlerCalls < MaxHandlerCalls
    /\ LET g == GateOutcome(env, stateKeys, disableAutoRegister,
                            lifecycleOptions.disableListener, enableSSR, debug)
           opts == [Step EXCEPT !.op = "plugin", !.outcome = g.outcome,
                                !.disableAutoRegister = disableAutoRegister,
                                !.enableSSR = enableSSR]
       IN  /\ last' = opts
           /\ IF g.outcome = "attaching"
              THEN /\ stateKeys' = WriteFlag(stateKeys)
                   /\ handlerCalls' = handlerCalls + 1
                   /\ pc' = "inHandler"
                   /\ UNCHANGED <<store, storeFlagRef>>
              ELSE UNCHANGED <<store, stateKeys, storeFlagRef, pc, handlerCalls>>
    /\ UNCHANGED Config

\* lifecycleEventHandler returns; the plugin sets store._hasStoreLifecycleManagerListener
HandlerReturn ==
    /\ pc = "inHandler"
    /\ pc' = "idle"
    /\ storeFlagRef' = TRUE
    /\ last' = [Step EXCEPT !.op = "handlerReturn", !.outcome = "attached"]
    /\ UNCHANGED <<store, stateKeys, handlerCalls>>
    /\ UNCHANGED Config

HandlerThrowDetach ==
    /\ pc = "inHandler"
    /\ pc' = "idle"
    /\ stateKeys' = stateKeys \ {FlagKey}
    /\ last' = [Step EXCEPT !.op = "handlerThrow", !.outcome = "threw", !.thrown = TRUE]
    /\ UNCHANGED <<store, storeFlagRef, handlerCalls>>
    /\ UNCHANGED Config

\* lifecycleEventHandler throws; the plugin invocation ends with that error
HandlerThrow ==
    /\ pc = "inHandler"
    /\ pc' = "idle"
    /\ last' = [Step EXCEPT !.op = "handlerThrow", !.outcome = "threw", !.thrown = TRUE]
    /\ UNCHANGED <<store, stateKeys, storeFlagRef, handlerCalls>>
    /\ UNCHANGED Config

\* the three operations exist for a caller only once the handler received them
Registered == handlerCalls > 0

\* what a step records of the pass it ran
Recorded(op, p) ==
    [Step EXCEPT !.op = op, !.outcome = p.outcome, !.thrown = p.thrown,
                 !.debug = p.debug, !.evals = p.evals, !.args = p.args,
                 !.mapping = p.mapping, !.skipped = p.skipped, !.failed = p.failed,
                 !.updated = p.updated, !.entries = p.entries,
                 !.selected = p.selected, !.calls = p.calls]

\* In the three operations, debug is the enableDebugLogs option of the plugin
\* invocation that created the closure being called.

\* ---------------------------------------------------------------- resetState
ResetState(debug) ==
    /\ Registered
    /\ LET p == ResetPass(lifecycleOptions.clean, store, setter, debug)
       IN  /\ store' = p.store
           /\ last' = Recorded("reset", p)
    /\ UNCHANGED <<stateKeys, storeFlagRef, pc, handlerCalls>>
    /\ UNCHANGED Config

\* ---------------------------------------------------------- reconfigureState
ReconfigureState(debug) ==
    /\ Registered
    /\ LET p == ReconfigurePass(lifecycleOptions.reConfigure, store, setter, debug)
       IN  /\ store' = p.store
           /\ last' = Recorded("reconfigure", p)
    /\ UNCHANGED <<stateKeys, storeFlagRef, pc, handlerCalls>>
    /\ UNCHANGED Config

\* -------------------------------------------------------------- refreshState
RefreshState(mode, inc, debug) ==
    /\ Registered
    /\ LET p == RefreshPass(lifecycleOptions.refresh, store, actions, mode, inc, debug)
       IN  /\ store' = p.store
           /\ last' = [Recorded("refresh", p) EXCEPT !.mode = mode, !.inc = inc]
    /\ UNCHANGED <<stateKeys, storeFlagRef, pc, handlerCalls>>
    /\ UNCHANGED Config

Next ==
    \/ \E d \in Tri, s \in Tri, debug \in BOOLEAN : PluginInvoke(d, s, debug)
    \/ HandlerReturn
    \/ HandlerThrow
    \/ \E debug \in BOOLEAN : ResetState(debug)
    \/ \E debug \in BOOLEAN : ReconfigureState(debug)
    \/ \E mode \in Modes, inc \in Tri, debug \in BOOLEAN : RefreshState(mode, inc, debug)

Spec == Init /\ [][Next]_vars

\* =================================================================== claims
IsPluginStep(l) == l.op \in {"plugin", "handlerReturn", "handlerThrow"}
IsApplyStep(l) == l.op \in {"reset", "reconfigure"}
CalledKeys(l) == {l.calls[i].key : i \in 1..Len(l.calls)}
SelectedKeys(l) == {l.selected[i].key : i \in 1..Len(l.selected)}
Writable(k) == ~store[k].ro /\ setter[k] = "plain"

TableSelects(mode, inc, resetOnly) ==
    CASE mode = "partial" -> resetOnly \in {"absent", "false"}
      [] mode = "full" /\ inc \in {"absent", "false"} -> TRUE
      [] OTHER -> resetOnly = "true"

C3_ReadonlyUntouched ==
    [][IsApplyStep(last') =>
        /\ \A k \in PropKeys : IsReadonly(store[k]) => store'[k] = store[k]
        /\ \A i \in 1..Len(last'.mapping) :
              LET e == last'.mapping[i]
              IN  /\ IsReadonly(store[e.key]) => e.key \in Range(last'.skipped)
                  /\ (last'.skipped # <<>> /\ Writable(e.key)) => store'[e.key] = e.value
      ]_vars

C3_Witness ==
    /\ last.op = "reset" /\ last.outcome = "applied"
    /\ KeysOf(last.mapping) = <<"count", "user">>
    /\ last.skipped = <<"count">> /\ last.updated = <<"user">>
    /\ store["count"] = Frozen(MaxVal)
    /\ store["user"] = Plain(0)

\* C4: a write that raises is caught at its key: reset and reconfigure do
\* not throw, and every other writable key of the mapping, before or after
\* the failing one, holds its new value afterwards.
C4_WriteFailureIsolated ==
    [][(IsApplyStep(last') /\ last'.outcome = "applied") =>
        /\ ~last'.thrown
        /\ \A i \in 1..Len(last'.mapping) :
              LET e == last'.mapping[i]
              IN  /\ (setter[e.key] = "throws" /\ ~IsReadonly(store[e.key]))
                        => (e.key \in Range(last'.failed) /\ store'[e.key] = store[e.key])
                  /\ Writable(e.key) => store'[e.key] = e.value
      ]_vars

C4_Witness ==
    /\ last.op = "reconfigure" /\ last.outcome = "applied" /\ ~last.thrown
    /\ Len(last.mapping) = 2
    /\ last.failed = <<last.mapping[1].key>>
    /\ last.updated = <<last.mapping[2].key>>
    /\ last.mapping[2].value = Plain(0)
    /\ store[last.mapping[2].key] = Plain(0)

\* C5: a refresh never throws because an invoked action threw, and every
\* selected entry whose action exists on the store is invoked.
C5_ActionFailureContained ==
    (last.op = "refresh" /\ last.outcome = "dispatched") =>
        /\ ~last.thrown
        /\ \A i \in 1..Len(last.selected) :
              actions[last.selected[i].key] # "absent"
                  => last.selected[i].key \in CalledKeys(last)

SlotOf(op) ==
    CASE op = "reset" -> lifecycleOptions.clean
      [] op = "reconfigure" -> lifecycleOptions.reConfigure
      [] OTHER -> lifecycleOptions.refresh

\* C6: when the configuration function of the slot throws, the operation
\* throws to its caller, writes no property and invokes no action.
C6_ResolverErrorAborts ==
    [][(last'.op \in {"reset", "reconfigure", "refresh"}
            /\ SlotOf(last'.op).kind \in {"storeFn", "noArgFn"}
            /\ SlotOf(last'.op).fn = "throws") =>
        /\ last'.thrown
        /\ store' = store
        /\ last'.updated = <<>> /\ last'.failed = <<>> /\ last'.skipped = <<>>
        /\ last'.calls = <<>>
      ]_vars

C6_Witness ==
    /\ last.op = "refresh" /\ last.thrown /\ last.outcome = "resolverThrew"
    /\ lifecycleOptions.refresh.fn = "throws"
    /\ last.calls = <<>>
    /\ actions["load"] = "ok"
    /\ \A k \in PropKeys : store[k] = Plain(MaxVal)

\* C7: when a selected entry names no action of the store, the refresh
\* invokes nothing for it, does not throw, and invokes every other selected
\* entry whose action exists.
C7_MissingActionSkipped ==
    (/\ last.op = "refresh" /\ last.outcome = "dispatched"
     /\ \E i \in 1..Len(last.selected) : actions[last.selected[i].key] = "absent") =>
        /\ \A i \in 1..Len(last.selected) :
              actions[last.selected[i].key] = "absent"
                  => last.selected[i].key \notin CalledKeys(last)
        /\ ~last.thrown
        /\ \A i \in 1..Len(last.selected) :
              actions[last.selected[i].key] # "absent"
                  => last.selected[i].key \in CalledKeys(last)

\* C8: when the plugin attaches, the flag is in the store's state before the
\* handler runs, the handler is invoked exactly once by that invocation and
\* the operations it received are callable from then on, and no step of the
\* plugin itself writes a property or invokes an action.
C8_AttachThenHandlerOnce ==
    [][/\ pc' = "inHandler" => (FlagKey \in stateKeys' /\ Registered')
       /\ (last'.op = "plugin" /\ last'.outcome = "attaching")
              => (pc = "idle" /\ pc' = "inHandler" /\ handlerCalls' = handlerCalls + 1)
       /\ (last'.op = "plugin" /\ last'.outcome # "attaching")
              => (pc' = "idle" /\ handlerCalls' = handlerCalls)
       /\ last'.op \in {"handlerReturn", "handlerThrow"}
              => (pc = "inHandler" /\ pc' = "idle" /\ handlerCalls' = handlerCalls)
       /\ IsPluginStep(last')
              => (store' = store /\ last'.calls = <<>> /\ last'.updated = <<>>)
      ]_vars

C8_Witness ==
    /\ pc = "inHandler"
    /\ last.op = "plugin" /\ last.outcome = "attaching"
    /\ handlerCalls = 1
    /\ stateKeys = {FlagKey}
    /\ ~storeFlagRef

\* the registration table, as the claim states it
TableRegisters(disableAutoRegister, disableListener) ==
    CASE disableListener = "false" -> TRUE
      [] disableListener = "true" -> FALSE
      [] OTHER -> disableAutoRegister # "true"

\* C9: a plugin invocation that passes the environment check on a store
\* without the attachment flag attaches (writes the flag and invokes the
\* handler) iff the table over disableAutoRegister and disableListener says so.
C9_RegistrationTable ==
    [][(/\ last'.op = "plugin"
        /\ ((env.window /\ env.document) \/ last'.enableSSR = "true")
        /\ FlagKey \notin stateKeys) =>
            ((FlagKey \in stateKeys' /\ handlerCalls' = handlerCalls + 1)
                <=> TableRegisters(last'.disableAutoRegister,
                                   lifecycleOptions.disableListener))
      ]_vars

C9_Witness ==
    /\ last.op = "plugin" /\ last.outcome = "attaching"
    /\ last.disableAutoRegister = "true"
    /\ lifecycleOptions.disableListener = "false"
    /\ handlerCalls = 1

\* C10: when window or document is undefined and enableSSR is not set, a
\* plugin invocation creates no flag and invokes no handler, whatever the
\* registration options are.
C10_ServerSideStaysUnattached ==
    [][(/\ last'.op = "plugin"
        /\ (~env.window \/ ~env.document)
        /\ last'.enableSSR # "true") =>
            /\ stateKeys' = stateKeys
            /\ handlerCalls' = handlerCalls
            /\ storeFlagRef' = storeFlagRef
            /\ pc' = "idle"
      ]_vars

C10_Witness ==
    /\ last.op = "plugin" /\ last.outcome = "notClient"
    /\ env.window /\ ~env.document
    /\ lifecycleOptions.disableListener = "false"
    /\ last.disableAutoRegister = "false"
    /\ stateKeys = {} /\ handlerCalls = 0

IsOpStep(l) == l.op \in {"reset", "reconfigure", "refresh"}

\* the slot of the operation is not declared, or its function returns nothing
\* or, for refresh, something that is not an object
YieldsNothing(op) ==
    LET src == SlotOf(op)
    IN  \/ src.kind = "absent"
        \/ /\ src.kind \in {"storeFn", "noArgFn"}
           /\ src.fn = "void" \/ (op = "refresh" /\ src.fn = "invalid")

\* C11: when the slot of reset, reconfigure or refresh is not declared, or
\* its function yields nothing (for refresh: nothing or a non-object), the
\* call changes no property, invokes no action and does not throw, for
\* every mode and flag.
C11_NothingResolvedIsNoOp ==
    [][(IsOpStep(last') /\ YieldsNothing(last'.op)) =>
        /\ store' = store
        /\ last'.calls = <<>> /\ last'.updated = <<>>
        /\ ~last'.thrown
      ]_vars

C11_Witness ==
    /\ last.op = "refresh" /\ last.outcome = "invalid" /\ ~last.thrown
    /\ lifecycleOptions.refresh.fn = "invalid"
    /\ last.mode = "full" /\ last.inc = "true"
    /\ last.calls = <<>> /\ last.evals = 1
    /\ handlerCalls = 1

\* what reset or reconfigure does when its slot is src, without diagnostics
ApplyPass(op, src) ==
    IF op = "reset" THEN ResetPass(src, store, setter, FALSE)
    ELSE ReconfigurePass(src, store, setter, FALSE)

\* C12: a slot declared as a function returning the mapping M, with or
\* without a store parameter, makes reset and reconfigure leave the store
\* exactly as the static declaration of M does; the function is called once,
\* with the store iff it declares a parameter.
C12_SourceShapeIrrelevant ==
    [][(/\ IsApplyStep(last')
        /\ SlotOf(last'.op).kind \in {"storeFn", "noArgFn"}
        /\ SlotOf(last'.op).fn = "ret") =>
            LET src == SlotOf(last'.op)
                ref == ApplyPass(last'.op, Static(src.m))
            IN  /\ store' = ref.store
                /\ last'.updated = ref.updated
                /\ last'.skipped = ref.skipped
                /\ last'.failed = ref.failed
                /\ last'.evals = 1
                /\ last'.args = (IF src.kind = "storeFn" THEN 1 ELSE 0)
      ]_vars

C12_Witness ==
    /\ last.op = "reset" /\ last.outcome = "applied"
    /\ lifecycleOptions.clean.kind = "noArgFn" /\ lifecycleOptions.clean.fn = "ret"
    /\ last.evals = 1 /\ last.args = 0
    /\ last.updated = <<"user", "count">>
    /\ store["user"] = Plain(0) /\ store["count"] = Plain(0)

\* C13 as stated: a reset that follows a reset, and a reconfigure that
\* follows a reconfigure, leaves the store as the first call left it, for
\* every configuration source.
C13_SecondCallChangesNothing ==
    [][(IsApplyStep(last) /\ last'.op = last.op) => store' = store]_vars

\* C13: a reset that follows a reset, and a reconfigure that follows a
\* reconfigure, leaves the store as the first call left it whenever both
\* calls resolved the slot to the same mapping.
C13_IdempotentOnSameMapping ==
    [][(IsApplyStep(last) /\ last'.op = last.op /\ last'.mapping = last.mapping)
            => store' = store]_vars

\* a second pass of the store-reading function: the mapping it resolved reads
\* the value an earlier pass wrote
C13_Witness ==
    /\ last.op = "reset" /\ last.outcome = "applied"
    /\ lifecycleOptions.clean.fn = "fromStore"
    /\ last.mapping = PropsFromStore(store)
    /\ last.updated = <<"user", "count">>
    /\ store["count"] = Plain(0)

\* C14: a full refresh invokes every entry of the resolved mapping whose
\* action exists, whatever includeResetOnlyActions is; a partial refresh
\* invokes no reset-only entry.
C14_FullRefreshesAll ==
    (last.op = "refresh" /\ last.outcome = "dispatched" /\ ~last.thrown) =>
        \A i \in 1..Len(last.entries) :
            LET e == last.entries[i]
            IN  /\ (last.mode = "full" /\ actions[e.key] # "absent")
                        => e.key \in CalledKeys(last)
                /\ (last.mode = "partial" /\ ActionResetOnly(e))
                        => e.key \notin CalledKeys(last)

\* C15: reset and reconfigure never change a property whose name starts
\* with $ or _, or whose value is a function, even when the mapping names it.
C15_UnsafeKeysUntouched ==
    [][IsApplyStep(last') => \A k \in UnsafeKeys : store'[k] = store[k]]_vars

\* the invocations a dispatch over the selected entries owes, in order
RECURSIVE ExpectedCalls(_, _)
ExpectedCalls(sel, i) ==
    IF i > Len(sel) THEN <<>>
    ELSE IF actions[sel[i].key] = "absent" THEN ExpectedCalls(sel, i + 1)
    ELSE <<Call(sel[i])>> \o ExpectedCalls(sel, i + 1)

\* C16: a refresh invokes the selected entries whose action exists in the
\* order of the resolved mapping, each once, each with its declared params.
C16_InvokedInOrderOnce ==
    (last.op = "refresh" /\ last.outcome = "dispatched") =>
        last.calls = ExpectedCalls(last.selected, 1)

\* C17: a call whose slot is a function of the store evaluates it once; the
\* values it writes and the params it passes are those the function returns
\* for the store as the call found it, also for keys written and actions
\* invoked after the store changed within the call.
C17_ResolvedOncePerCall ==
    [][(IsOpStep(last') /\ SlotOf(last'.op).fn = "fromStore") =>
        /\ last'.evals = 1 /\ last'.args = 1
        /\ IF last'.op = "refresh"
           THEN /\ last'.entries = RefreshFromStore(store)
                /\ \A i \in 1..Len(last'.calls) :
                      \E j \in 1..Len(RefreshFromStore(store)) :
                          last'.calls[i] = Call(RefreshFromStore(store)[j])
           ELSE /\ last'.mapping = PropsFromStore(store)
                /\ \A j \in 1..Len(PropsFromStore(store)) :
                      LET e == PropsFromStore(store)[j]
                      IN  e.key \in Range(last'.updated) => store'[e.key] = e.value
      ]_vars

\* the second action was passed the count the call started with, not the one
\* the first action left
C17_Witness ==
    /\ last.op = "refresh" /\ last.outcome = "dispatched"
    /\ lifecycleOptions.refresh.fn = "fromStore"
    /\ KeysOf(last.calls) = <<"load", "purge">>
    /\ last.calls[2].params # <<store["count"].val>>
    /\ last.evals = 1

\* C18: once the flag is in the store's state, no plugin invocation, handler
\* outcome, reset, reconfigure or refresh removes it, and the reference to it
\* on the store stays.
C18_FlagNeverRemoved ==
    [][/\ FlagKey \in stateKeys => FlagKey \in stateKeys'
       /\ storeFlagRef => storeFlagRef'
      ]_vars

C18_Witness ==
    /\ FlagKey \in stateKeys /\ storeFlagRef
    /\ handlerCalls >= 2
    /\ last.op = "reset" /\ last.updated # <<>>

\* C19: reset with a source in the clean slot does what reconfigure does
\* with that source in the reConfigure slot, on the same store: the same
\* resulting store, the same keys skipped, the same failures contained.
C19_SameMutationAlgorithm ==
    [][IsApplyStep(last') =>
        LET other == IF last'.op = "reset" THEN "reconfigure" ELSE "reset"
            ref == ApplyPass(other, SlotOf(last'.op))
        IN  /\ store' = ref.store
            /\ last'.skipped = ref.skipped
            /\ last'.failed = ref.failed
            /\ last'.updated = ref.updated
            /\ last'.thrown = ref.thrown
      ]_vars

C19_Witness ==
    /\ last.op = "reconfigure" /\ last.outcome = "applied"
    /\ lifecycleOptions.clean = lifecycleOptions.reConfigure
    /\ last.skipped = <<"user">> /\ last.updated = <<"count">>
    /\ store["count"] = Plain(0) /\ store["user"] = Frozen(MaxVal)

\* what the operation of a step does from the step's starting state when
\* enableDebugLogs is debug
OpPass(l, debug) ==
    CASE l.op = "reset" -> ResetPass(lifecycleOptions.clean, store, setter, debug)
      [] l.op = "reconfigure" ->
            ReconfigurePass(lifecycleOptions.reConfigure, store, setter, debug)
      [] OTHER -> RefreshPass(lifecycleOptions.refresh, store, actions, l.mode, l.inc, debug)

\* C20: with and without enableDebugLogs a plugin invocation takes the same
\* attachment decision, and reset, reconfigure and refresh write the same
\* properties, invoke the same actions in the same order and throw or not
\* alike: what a step did with the option set is, diagnostics aside, what
\* the same operation does from the same state without it.
C20_DiagnosticsDoNotSteer ==
    [][/\ (IsOpStep(last') /\ last'.debug) =>
            [OpPass(last', FALSE) EXCEPT !.diag = <<>>]
                = [NoPass(store') EXCEPT
                      !.outcome = last'.outcome, !.thrown = last'.thrown,
                      !.evals = last'.evals, !.args = last'.args,
                      !.mapping = last'.mapping, !.skipped = last'.skipped,
                      !.failed = last'.failed, !.updated = last'.updated,
                      !.entries = last'.entries, !.selected = last'.selected,
                      !.calls = last'.calls]
       /\ last'.op = "plugin" =>
            \A debug \in BOOLEAN :
                GateOutcome(env, stateKeys, last'.disableAutoRegister,
                            lifecycleOptions.disableListener, last'.enableSSR,
                            debug).outcome = last'.outcome
      ]_vars

C20_Witness ==
    /\ last.op = "reset" /\ last.outcome = "applied" /\ last.debug
    /\ last.skipped = <<"count">> /\ last.updated = <<"user">>
    /\ store["user"] = Plain(MaxVal)

\* the store after the invoked actions that ran to completion, in order
RECURSIVE AfterCalls(_, _, _)
AfterCalls(calls, i, s) ==
    IF i > Len(calls) THEN s
    ELSE AfterCalls(calls, i + 1,
                    IF actions[calls[i].key] = "ok" THEN ActionEffect(calls[i].key, s)
                    ELSE s)

\* C21: reset and reconfigure leave every store key that the resolved
\* mapping does not name unchanged and invoke no action; refresh changes the
\* store only through the actions it invoked, and invokes only entries of the
\* resolved mapping that the filter table selects.
C21_OperationFrame ==
    [][/\ IsApplyStep(last') =>
            /\ \A k \in StoreKeys :
                  k \notin Range(KeysOf(last'.mapping)) => store'[k] = store[k]
            /\ last'.calls = <<>>
       /\ last'.op = "refresh" =>
            /\ store' = AfterCalls(last'.calls, 1, store)
            /\ \A i \in 1..Len(last'.calls) :
                  \E j \in 1..Len(last'.entries) :
                      /\ last'.entries[j].key = last'.calls[i].key
                      /\ TableSelects(last'.mode, last'.inc, last'.entries[j].resetOnly)
      ]_vars

C21_Witness ==
    /\ last.op = "refresh" /\ last.outcome = "dispatched" /\ last.mode = "partial"
    /\ KeysOf(last.entries) = <<"purge", "load">>
    /\ KeysOf(last.calls) = <<"load">>
    /\ store["count"] = Plain(0)
    /\ store["user"] = Plain(MaxVal)

\* C22: whenever no plugin invocation is under way, the flag is in the
\* store's state iff the handler has been invoked for the store; after a
\* handler that threw, the flag is there.
C22_FlagIffHandlerInvoked ==
    /\ pc = "idle" => (FlagKey \in stateKeys <=> handlerCalls > 0)
    /\ last.op = "handlerThrow" => FlagKey \in stateKeys

C22_Witness ==
    /\ pc = "idle" /\ last.op = "handlerThrow" /\ last.thrown
    /\ FlagKey \in stateKeys /\ ~storeFlagRef
    /\ handlerCalls = 1
====
